---- MODULE Spec2Model ----
(***************************************************************************)
(* Model of backend/server.js of the Reservation repository: the booking   *)
(* creation and lookup handlers, the payment-order handler, the restaurant *)
(* fetch handler and the Socket.IO connection handler.                     *)
(*                                                                         *)
(* Each Express handler contains exactly one awaited store call, so a      *)
(* handler is one atomic action taken at the moment of that call.  The     *)
(* payment handler is split at its await: the receipt is computed from     *)
(* Date.now() before the gateway call, and other requests may run before   *)
(* the gateway answers.                                                    *)
(*                                                                         *)
(* models/Booking.js is not among the source files at hand.  Its schema    *)
(* (BookingSchemaErrors, CastFails, ValidationMessage) follows the data    *)
(* model of spec.md: all seven fields required, userId and restaurantId    *)
(* object references, seats > 0, amountPaid >= 0.  The router mounted on   *)
(* /api/bookings at line 74 is not at hand either; the handlers below are  *)
(* the ones server.js itself registers.                                    *)
(***************************************************************************)
EXTENDS Integers, Sequences, FiniteSets, Bags, TLC

\* ---------------------------------------------------------------- bounds
MaxIds == 2        \* Booking documents constructed (new Booking) in a run
MaxInFlight == 2  \* payment-order requests awaiting the gateway at once
MaxClock == 1      \* milliseconds Date.now() advances in a run

\* ------------------------------------------------------------ identifiers
U1    == "507f1f77bcf86cd799439011"
U2    == "000000000000000000000000"
R1    == "507f191e810c19729de860ea"
R2    == "507f191e810c19729de860eb"
BadId == "not-an-object-id"

\* Length and character class of the identifier strings used as inputs.
StrLen == [s \in {U1, U2, R1, R2} |-> 24] @@ (BadId :> 16)
IsHex  == [s \in {U1, U2, R1, R2} |-> TRUE] @@ (BadId :> FALSE)

\* mongoose.Types.ObjectId.isValid on a string: 24 hexadecimal characters.
IsValidObjectId(s) == s \in DOMAIN StrLen /\ StrLen[s] = 24 /\ IsHex[s]

\* ------------------------------------------------------------- documents
Fields == {"userId", "restaurantId", "date", "time", "seats", "amountPaid",
           "confirmationCode"}

FieldValues == [userId           |-> {U1, U2, BadId},
                restaurantId     |-> {R1, BadId},
                date             |-> {"2024-05-01"},
                time             |-> {"19:00"},
                seats            |-> {-1, 0, 2},
                amountPaid       |-> {-5, 0},
                confirmationCode |-> {"order_rcptid_1234"}]

\* The restaurants collection; no handler of server.js writes it.
RestaurantStore == {[_id |-> R1, name |-> "Annapoorna"]}

\* JavaScript null in a JSON body.
JsNull == [null |-> TRUE]

\* Restaurant.findById(id)
FindRestaurantById(id) ==
  IF \E r \in RestaurantStore : r._id = id
  THEN CHOOSE r \in RestaurantStore : r._id = id
  ELSE JsNull

\* req.body of POST /api/bookings: a field that was not sent is absent from
\* the domain (destructuring yields undefined).
Present(req) == DOMAIN req

\* Schema of models/Booking.js without the lower bounds on seats and amountPaid
BookingSchemaErrorsNoMin(req) ==
  (Fields \ Present(req))
    \cup {k \in {"userId", "restaurantId"} \cap Present(req) :
            ~IsValidObjectId(req[k])}

\* Schema of models/Booking.js: the fields the document fails validation on.
BookingSchemaErrors(req) ==
  (Fields \ Present(req))
    \cup {k \in {"userId", "restaurantId"} \cap Present(req) :
            ~IsValidObjectId(req[k])}
    \cup (IF "seats" \in Present(req) /\ req["seats"] <= 0
          THEN {"seats"} ELSE {})
    \cup (IF "amountPaid" \in Present(req) /\ req["amountPaid"] < 0
          THEN {"amountPaid"} ELSE {})

\* Booking.find({ userId }) casts the filter to the schema type first.
CastFails(userId) == ~IsValidObjectId(userId)

\* A text is the sequence of the string pieces it is concatenated from.
FieldOrder == <<"userId", "restaurantId", "date", "time", "seats", "amountPaid",
                "confirmationCode">>
InErrors(req) == [k \in Fields |-> k \in BookingSchemaErrors(req)]
ValidationMessage(req) ==
  <<"Booking validation failed: ">> \o SelectSeq(FieldOrder, LAMBDA k : InErrors(req)[k])
CastMessage(value) == <<"Cast to ObjectId failed for value ", value>>
StoreErrors == {"connect ECONNREFUSED 127.0.0.1:27017",
                "bookings.insertOne() buffering timed out after 10000ms"}
GatewayErrors == {"BAD_REQUEST_ERROR: Authentication failed", "ETIMEDOUT"}

\* no error was thrown inside the try block
NoError == [none |-> TRUE]

VARIABLES
  store,     \* the bookings collection, in insertion order
  nextId,    \* documents constructed so far; source of the generated _id
  created,   \* the bookings answered with 201, in order
  now,       \* Date.now()
  pending,   \* bag of the orders.create(options) calls the gateway has not answered
  sockets,   \* connected Socket.IO clients
  caught,    \* the error caught while serving the latest response, or NoError
  resp       \* the response most recently sent

vars == <<store, nextId, created, now, pending, sockets, caught, resp>>

SocketIds == {"s1"}
Amounts   == {100}

RECURSIVE SelectSeqBy(_, _)
\* the documents of s owned by u, in collection order
SelectSeqBy(s, u) ==
  IF s = <<>> THEN <<>>
  ELSE IF Head(s).userId = u THEN <<Head(s)>> \o SelectSeqBy(Tail(s), u)
       ELSE SelectSeqBy(Tail(s), u)

\* Booking.find({ userId }) whose order flips with the parity of the clock
FindVolatileOrder(u) ==
  LET r == SelectSeqBy(store, u)
  IN IF now % 2 = 1 THEN [i \in 1..Len(r) |-> r[Len(r) + 1 - i]] ELSE r

\* Booking.find({ userId }) that stops at the first match (findOne)
FindFirstOnly(u) ==
  LET r == SelectSeqBy(store, u) IN IF r = <<>> THEN r ELSE <<Head(r)>>

\* Booking.find({ userId })
Find(u) == SelectSeqBy(store, u)

\* .populate("restaurantId")
Populate(b) == [b EXCEPT !.restaurantId = FindRestaurantById(b.restaurantId)]
PopulateAll(s) == [i \in 1..Len(s) |-> Populate(s[i])]

Init ==
  /\ store = <<>>
  /\ nextId = 0
  /\ created = <<>>
  /\ now = 0
  /\ pending = EmptyBag
  /\ sockets = {}
  /\ caught = NoError
  /\ resp = [route |-> "none", status |-> 0]

\* new Booking({...}) whose _id is taken from the clock
NewBookingClockId(req, id) ==
  [k \in Present(req) \cup {"_id"} |-> IF k = "_id" THEN now ELSE req[k]]

\* new Booking({...}): the document with its generated _id
NewBooking(req, id) ==
  [k \in Present(req) \cup {"_id"} |-> IF k = "_id" THEN id ELSE req[k]]

\* the request bodies: any subset of the fields, each with a value of its type
BookingRequests ==
  UNION {{[k \in D |-> full[k]] : full \in
            [userId: FieldValues.userId, restaurantId: FieldValues.restaurantId,
             date: FieldValues.date, time: FieldValues.time,
             seats: FieldValues.seats, amountPaid: FieldValues.amountPaid,
             confirmationCode: FieldValues.confirmationCode]} :
         D \in SUBSET Fields}

\* the request bodies sent: the valid ones, and those with one field missing or
\* out of range
AdmittedRequests ==
  {req \in BookingRequests :
     \E k \in Fields : BookingSchemaErrors(req) \cup (Fields \ Present(req)) \subseteq {k}}

\* newBooking.save(): the error it throws, or NoError
SaveError(req, storeError) ==
  IF BookingSchemaErrors(req) # {} THEN [message |-> ValidationMessage(req)]
  ELSE IF storeError # "ok" THEN [message |-> <<storeError>>]
  ELSE NoError

\* a save that replaces the owner's earlier booking (upsert keyed on userId)
InsertedUpsert(doc) ==
  IF \E i \in 1..Len(store) : store[i].userId = doc.userId
  THEN [i \in 1..Len(store) |-> IF store[i].userId = doc.userId THEN doc ELSE store[i]]
  ELSE Append(store, doc)

\* the collection after newBooking.save() inserted the document
Inserted(doc) == Append(store, doc)

\* app.post("/api/bookings")
CreateBooking ==
  /\ nextId < MaxIds
  /\ \E req \in AdmittedRequests :
     \E storeError \in IF BookingSchemaErrors(req) = {} THEN StoreErrors \cup {"ok"} ELSE {"ok"} :
    /\ nextId' = nextId + 1
    /\ caught' = SaveError(req, storeError)
    /\ LET newBooking == NewBooking(req, nextId)
           error == SaveError(req, storeError) IN
       IF error # NoError
       THEN /\ resp' = [route |-> "POST /api/bookings", req |-> req, status |-> 500,
                        body |-> [message |-> <<"Server error: ">> \o error.message]]
            /\ UNCHANGED <<store, created>>
       ELSE /\ store' = Inserted(newBooking)
            /\ created' = Append(created, newBooking)
            /\ resp' = [route |-> "POST /api/bookings", req |-> req, status |-> 201,
                        body |-> newBooking]
    /\ UNCHANGED <<now, pending, sockets>>

\* app.get("/api/bookings/:userId") answering 200 with an empty array
ListBookingsByParamEmptyOk ==
  \E userId \in FieldValues.userId :
  \E storeError \in IF CastFails(userId) THEN {"ok"} ELSE StoreErrors \cup {"ok"} :
    /\ caught' = IF CastFails(userId) THEN [message |-> CastMessage(userId)]
                 ELSE IF storeError # "ok" THEN [message |-> <<storeError>>]
                 ELSE NoError
    /\ IF storeError # "ok" \/ CastFails(userId)
       THEN resp' = [route |-> "GET /api/bookings/:userId", userId |-> userId,
                     status |-> 500,
                     body |-> [message |-> <<"Error fetching bookings">>]]
       ELSE resp' = [route |-> "GET /api/bookings/:userId", userId |-> userId,
                     status |-> 200, body |-> PopulateAll(Find(userId))]
    /\ UNCHANGED <<store, nextId, created, now, pending, sockets>>

\* app.get("/api/bookings/:userId")
ListBookingsByParam ==
  \E userId \in FieldValues.userId :
  \E storeError \in IF CastFails(userId) THEN {"ok"} ELSE StoreErrors \cup {"ok"} :
    /\ caught' = IF CastFails(userId) THEN [message |-> CastMessage(userId)]
                 ELSE IF storeError # "ok" THEN [message |-> <<storeError>>]
                 ELSE NoError
    /\ IF storeError # "ok" \/ CastFails(userId)
       THEN resp' = [route |-> "GET /api/bookings/:userId", userId |-> userId,
                     status |-> 500,
                     body |-> [message |-> <<"Error fetching bookings">>]]
       ELSE LET userBookings == PopulateAll(Find(userId)) IN
            IF Len(userBookings) = 0
            THEN resp' = [route |-> "GET /api/bookings/:userId", userId |-> userId,
                          status |-> 404,
                          body |-> [message |-> <<"No bookings found">>]]
            ELSE resp' = [route |-> "GET /api/bookings/:userId", userId |-> userId,
                          status |-> 200, body |-> userBookings]
    /\ UNCHANGED <<store, nextId, created, now, pending, sockets>>

\* req.query.userId when the query string has no userId
Undefined == "undefined"

\* app.get("/bookings")
ListBookingsByQuery ==
  \E userId \in FieldValues.userId \cup {Undefined, ""} :
  \E storeError \in IF IsValidObjectId(userId) THEN StoreErrors \cup {"ok"} ELSE {"ok"} :
    /\ IF userId \in {Undefined, ""}
       THEN /\ resp' = [route |-> "GET /bookings", userId |-> userId, status |-> 400,
                        body |-> [error |-> <<"userId is required">>]]
            /\ caught' = NoError
       ELSE IF ~IsValidObjectId(userId)
       THEN /\ resp' = [route |-> "GET /bookings", userId |-> userId, status |-> 400,
                        body |-> [error |-> <<"Invalid userId format">>]]
            /\ caught' = NoError
       ELSE IF storeError # "ok"
       THEN /\ resp' = [route |-> "GET /bookings", userId |-> userId, status |-> 500,
                        body |-> [error |-> <<"Internal server error">>]]
            /\ caught' = [message |-> <<storeError>>]
       ELSE /\ resp' = [route |-> "GET /bookings", userId |-> userId, status |-> 200,
                        body |-> Find(userId)]
            /\ caught' = NoError
    /\ UNCHANGED <<store, nextId, created, now, pending, sockets>>

\* app.get('/restaurant/:id')
GetRestaurant ==
  \E id \in {R1, R2, BadId} :
  \E storeError \in IF IsValidObjectId(id) THEN StoreErrors \cup {"ok"} ELSE {"ok"} :
    /\ IF ~IsValidObjectId(id)
       THEN /\ resp' = [route |-> "GET /restaurant/:id", id |-> id, status |-> 400,
                        body |-> [error |-> <<"Invalid restaurant ID">>]]
            /\ caught' = NoError
       ELSE IF storeError # "ok"
       THEN /\ resp' = [route |-> "GET /restaurant/:id", id |-> id, status |-> 500,
                        body |-> [error |-> <<"Error fetching restaurant">>]]
            /\ caught' = [message |-> <<storeError>>]
       ELSE IF FindRestaurantById(id) = JsNull
       THEN /\ resp' = [route |-> "GET /restaurant/:id", id |-> id, status |-> 404,
                        body |-> [error |-> <<"Restaurant not found">>]]
            /\ caught' = NoError
       ELSE /\ resp' = [route |-> "GET /restaurant/:id", id |-> id, status |-> 200,
                        body |-> FindRestaurantById(id)]
            /\ caught' = NoError
    /\ UNCHANGED <<store, nextId, created, now, pending, sockets>>

\* the options object of POST /api/payment
PaymentOptions(amount, currency) ==
  [amount |-> amount * 100, currency |-> currency,
   receipt |-> <<"order_rcptid_", now>>]

\* app.post("/api/payment") up to the await of razorpay.orders.create
CreatePaymentOrder ==
  \E amount \in Amounts :
    /\ BagCardinality(pending) < MaxInFlight
    /\ pending' = pending (+) SetToBag({[req |-> [amount |-> amount, currency |-> "INR"],
                                         options |-> PaymentOptions(amount, "INR")]})
    /\ UNCHANGED <<store, nextId, created, now, sockets, caught, resp>>

\* the order ids the gateway hands out
GatewayOrderIds == {"order_9A33XWu170gUtm", "order_DBJOWzybf0sJbb"}

\* app.post("/api/payment") from the gateway's answer on
CompletePaymentOrder ==
  \E call \in BagToSet(pending), gatewayError \in GatewayErrors \cup {"ok"} :
    /\ pending' = pending (-) SetToBag({call})
    /\ IF gatewayError # "ok"
       THEN /\ resp' = [route |-> "POST /api/payment", req |-> call.req,
                        status |-> 500, body |-> [error |-> <<"Failed to create order">>]]
            /\ caught' = [message |-> <<gatewayError>>]
       ELSE \E id \in GatewayOrderIds :
            /\ resp' = [route |-> "POST /api/payment", req |-> call.req,
                        status |-> 200,
                        body |-> [id |-> id, amount |-> call.options.amount,
                                  currency |-> call.options.currency,
                                  receipt |-> call.options.receipt,
                                  status |-> "created"]]
            /\ caught' = NoError
    /\ UNCHANGED <<store, nextId, created, now, sockets>>

\* io.on("connection")
SocketConnect ==
  \E s \in SocketIds \ sockets :
    /\ sockets' = sockets \cup {s}
    /\ UNCHANGED <<store, nextId, created, now, pending, caught, resp>>

\* socket.on("disconnect")
SocketDisconnect ==
  \E s \in sockets :
    /\ sockets' = sockets \ {s}
    /\ UNCHANGED <<store, nextId, created, now, pending, caught, resp>>

\* a millisecond passes: Date.now() advances
Tick ==
  /\ now < MaxClock
  /\ now' = now + 1
  /\ UNCHANGED <<store, nextId, created, pending, sockets, caught, resp>>

Next ==
  \/ CreateBooking
  \/ ListBookingsByParam
  \/ ListBookingsByQuery
  \/ GetRestaurant
  \/ CreatePaymentOrder
  \/ CompletePaymentOrder
  \/ SocketConnect
  \/ SocketDisconnect
  \/ Tick

Spec == Init /\ [][Next]_vars

----------------------------------------------------------------------------
\* Helpers of the properties

ListRoutes == {"GET /api/bookings/:userId", "GET /bookings"}
Is4xx(status) == status \in 400..499
Is5xx(status) == status \in 500..599

\* the positions of the bookings of the collection owned by u
OwnedIndexes(u) == {i \in 1..Len(store) : store[i].userId = u}

\* body lists exactly the documents at the positions idx, in collection order,
\* each passed through view
ListsExactly(body, idx, view(_)) ==
  /\ Len(body) = Cardinality(idx)
  /\ \A i \in idx :
       body[Cardinality({j \in idx : j <= i})] = view(store[i])

\* the text of an error body
ErrorText(body) == IF "message" \in DOMAIN body THEN body.message ELSE body.error

----------------------------------------------------------------------------
\* C1: every booking answered with 201 stays in the collection, and every
\* later successful listing keyed on its userId, on either route, contains it;
\* the :userId route never answers "No bookings found" for its owner.
C1_CreatedBookingRetrievable ==
  /\ \A i \in 1..Len(created) : \E j \in 1..Len(store) : store[j] = created[i]
  /\ (resp.route = "GET /bookings" /\ resp.status = 200) =>
       \A i \in 1..Len(created) :
         created[i].userId = resp.userId =>
           \E j \in 1..Len(resp.body) : resp.body[j] = created[i]
  /\ (resp.route = "GET /api/bookings/:userId" /\ resp.status = 200) =>
       \A i \in 1..Len(created) :
         created[i].userId = resp.userId =>
           \E j \in 1..Len(resp.body) : resp.body[j] = Populate(created[i])
  /\ (resp.route = "GET /api/bookings/:userId" /\ resp.status = 404) =>
       \A i \in 1..Len(created) : created[i].userId # resp.userId

\* two bookings of one owner were created and a listing for that owner answered
C1_Witness ==
  /\ Len(created) >= 2
  /\ created[1].userId = created[2].userId
  /\ resp.route \in ListRoutes /\ resp.status = 200
  /\ resp.userId = created[1].userId

\* C2 (as claimed): a malformed userId is answered with a 400-class response
\* by POST /api/bookings, GET /api/bookings/:userId and GET /bookings.
C2_MalformedUserIdInvalidRequest ==
  /\ (resp.route = "POST /api/bookings" /\ "userId" \in DOMAIN resp.req
        /\ ~IsValidObjectId(resp.req["userId"])) => Is4xx(resp.status)
  /\ (resp.route \in ListRoutes /\ resp.userId \notin {Undefined, ""}
        /\ ~IsValidObjectId(resp.userId)) => Is4xx(resp.status)

\* C3: a request with seats <= 0 or amountPaid < 0 is never answered 201, and
\* every booking in the collection has seats > 0 and amountPaid >= 0.
C3_SeatsAndAmountBounds ==
  /\ \A i \in 1..Len(store) : store[i].seats > 0 /\ store[i].amountPaid >= 0
  /\ (resp.route = "POST /api/bookings"
        /\ (\/ "seats" \in DOMAIN resp.req /\ resp.req["seats"] <= 0
            \/ "amountPaid" \in DOMAIN resp.req /\ resp.req["amountPaid"] < 0))
       => (resp.status # 201 /\ \A i \in 1..Len(store) : store[i]._id # nextId - 1)

\* a request with seats <= 0 or amountPaid < 0 was refused while a booking is stored
C3_Witness ==
  /\ Len(store) >= 1
  /\ resp.route = "POST /api/bookings" /\ resp.status = 500
  /\ \/ "seats" \in DOMAIN resp.req /\ resp.req["seats"] <= 0
     \/ "amountPaid" \in DOMAIN resp.req /\ resp.req["amountPaid"] < 0

\* C4 (as claimed): a createBooking request with a required field missing is
\* answered with a 400-class response, and a 500-class response is given only
\* when the store failed (the request itself being acceptable).
C4_MissingFieldInvalidRequest ==
  resp.route = "POST /api/bookings" =>
    /\ (Fields \ DOMAIN resp.req # {}) => Is4xx(resp.status)
    /\ Is5xx(resp.status) => BookingSchemaErrors(resp.req) = {}

\* C5: a 201 answer to a valid request echoes the seven request fields, a
\* valid request is refused only when the store fails, and no two bookings
\* returned or stored share an id.
C5_EchoAndUniqueId ==
  /\ (resp.route = "POST /api/bookings" /\ resp.status = 201) =>
       /\ DOMAIN resp.body = Fields \cup {"_id"}
       /\ \A k \in Fields : resp.body[k] = resp.req[k]
  /\ (resp.route = "POST /api/bookings" /\ BookingSchemaErrors(resp.req) = {}) =>
       \/ resp.status = 201
       \/ resp.status = 500 /\ \E e \in StoreErrors : caught = [message |-> <<e>>]
  /\ \A i, j \in 1..Len(created) : i # j => created[i]._id # created[j]._id
  /\ \A i, j \in 1..Len(store) : i # j => store[i]._id # store[j]._id

\* two bookings have been returned, the second just now
C5_Witness ==
  /\ Len(created) >= 2
  /\ resp.route = "POST /api/bookings" /\ resp.status = 201
  /\ resp.body = created[Len(created)]

\* C6: GET /api/bookings/:userId answers 500 exactly when the query threw;
\* otherwise 404 exactly when the collection holds no booking of userId, and
\* otherwise 200 with all and only the bookings of userId, restaurant expanded.
C6_ListByParamStatus ==
  resp.route = "GET /api/bookings/:userId" =>
    /\ resp.status \in {200, 404, 500}
    /\ resp.status = 500 <=> caught # NoError
    /\ resp.status = 404 <=> (caught = NoError /\ OwnedIndexes(resp.userId) = {})
    /\ resp.status = 200 =>
         ListsExactly(resp.body, OwnedIndexes(resp.userId), Populate)

\* the three answers of the route, with bookings of both owners stored
C6_Witness200 ==
  /\ resp.route = "GET /api/bookings/:userId" /\ resp.status = 200
  /\ \E i, j \in 1..Len(store) : store[i].userId # store[j].userId

\* C7 (as claimed): the gateway order's amount is the request's amount times
\* 100, and no two payment-order creations carry the same receipt.
C7_AmountAndDistinctReceipts ==
  /\ \A call \in BagToSet(pending) :
       /\ call.options.amount = call.req.amount * 100
       /\ CopiesIn(call, pending) = 1
  /\ \A c1, c2 \in BagToSet(pending) :
       c1.options.receipt = c2.options.receipt => c1 = c2
  /\ (resp.route = "POST /api/payment" /\ resp.status = 200) =>
       /\ resp.body.amount = resp.req.amount * 100
       /\ \A call \in BagToSet(pending) : call.options.receipt # resp.body.receipt

C9_GenericFailureBody ==
  Is5xx(resp.status) =>
    \A i \in 1..Len(caught.message) :
      \A j \in 1..Len(ErrorText(resp.body)) :
        ErrorText(resp.body)[j] # caught.message[i]

\* C10: a step either leaves the bookings collection as it is, or is a POST
\* /api/bookings answered 201 that appends the returned booking and nothing else.
C10_StoreOnlyGrowsByCreate ==
  [][\/ store' = store
     \/ /\ Len(store') = Len(store) + 1
        /\ SubSeq(store', 1, Len(store)) = store
        /\ resp'.route = "POST /api/bookings" /\ resp'.status = 201
        /\ store'[Len(store')] = resp'.body]_vars

\* two bookings are stored and other operations have run since
C10_Witness ==
  /\ Len(store) >= 2
  /\ sockets # {}
  /\ pending # EmptyBag
  /\ resp.route = "GET /restaurant/:id"
====
